---- MODULE Spec2Model ----
(***************************************************************************)
(* The signature-driven D-Bus encoder of serde/src/serializer.rs.          *)
(*                                                                         *)
(* A value announces its shape to the encoder through serde's callbacks.   *)
(* The callbacks a value makes are a fixed sequence (Events(value)); the   *)
(* model executes them one per step against the encoder state: a stack of  *)
(* Serializer objects (the top-level one and the sub-encoders made for     *)
(* variant value slots), a stack of open SeqSerializer / StructSerializer  *)
(* handles, and the seekable sink.                                         *)
(***************************************************************************)
EXTENDS Integers, Sequences, FiniteSets, TLC

\* ------------------------------------------------------------------ bounds
\* Arrays and maps of the generated values hold 0..MaxElems elements.
MaxElems == 2
\* Sinks handed to to_write already hold 0..MaxPre bytes.
MaxPre == 2
\* Quota sinks accept 0..MaxQuota bytes and then reject every write.
MaxQuota == 9
\* The long sinks hold MaxBeyond bytes beyond the write position.
MaxBeyond == 6

\* ------------------------------------------------------------ small helpers
None == <<>>
Some(x) == <<x>>
IsSome(o) == Len(o) = 1
Unwrap(o) == o[1]

Min(a, b) == IF a < b THEN a ELSE b
Max(a, b) == IF a < b THEN b ELSE a

RECURSIVE Reverse(_)
Reverse(s) == IF s = <<>> THEN <<>> ELSE Append(Reverse(Tail(s)), Head(s))

RECURSIVE Zeros(_)
Zeros(n) == IF n <= 0 THEN <<>> ELSE <<0>> \o Zeros(n - 1)

\* The w low-order base-256 digits of v, least significant first (two's
\* complement for a negative v: \div rounds down and % is non-negative).
RECURSIVE Digits(_, _)
Digits(v, w) == IF w = 0 THEN <<>> ELSE <<v % 256>> \o Digits(v \div 256, w - 1)

\* The number a sequence of digits (least significant first) stands for.
RECURSIVE FromDigits(_)
FromDigits(d) == IF d = <<>> THEN 0 ELSE Head(d) + 256 * FromDigits(Tail(d))

\* byteorder::ByteOrder: the bytes of a fixed-width value in the order B.
InOrder(B, le) == IF B = "LE" THEN le ELSE Reverse(le)

\* ASCII codes of the characters that occur in signatures and strings.
Code(c) ==
  CASE c = "y" -> 121 [] c = "b" -> 98  [] c = "n" -> 110 [] c = "q" -> 113
    [] c = "i" -> 105 [] c = "u" -> 117 [] c = "x" -> 120 [] c = "t" -> 116
    [] c = "d" -> 100 [] c = "s" -> 115 [] c = "o" -> 111 [] c = "g" -> 103
    [] c = "v" -> 118 [] c = "a" -> 97  [] c = "(" -> 40  [] c = ")" -> 41
    [] c = "{" -> 123 [] c = "}" -> 125 [] c = "h" -> 104 [] c = "/" -> 47
    [] c = "U" -> 85  [] c = "k" -> 107

\* str::as_bytes for the (ASCII) strings of the model.
as_bytes(s) == [i \in 1..Len(s) |-> Code(s[i])]

\* ------------------------------------------------- utils / Basic (signature)
\* Basic::ALIGNMENT / alignment_for_signature_char under the DBus format.
alignment_for_signature_char(c, format) ==
  CASE c \in {"y", "g", "v"} -> 1
    [] c \in {"n", "q"} -> 2
    [] c \in {"b", "i", "u", "s", "o", "a"} -> 4
    [] c \in {"x", "t", "d", "(", "{"} -> 8
    [] OTHER -> 1

\* Basic::SIGNATURE_CHAR of the host primitive types that implement Basic.
SignatureChar(T) ==
  CASE T = "bool" -> "b" [] T = "i16" -> "n" [] T = "i32" -> "i"
    [] T = "i64" -> "x"  [] T = "u8" -> "y"  [] T = "u16" -> "q"
    [] T = "u32" -> "u"  [] T = "u64" -> "t" [] T = "f64" -> "d"

\* The width in bytes of the value each primitive writer writes.
Width(T) ==
  CASE T \in {"u8"} -> 1 [] T \in {"i16", "u16"} -> 2
    [] T \in {"bool", "i32", "u32"} -> 4 [] T \in {"i64", "u64", "f64"} -> 8

padding_for_n_bytes(n, alignment) == (alignment - (n % alignment)) % alignment

\* The length of the complete type that starts at index i (1-based) of sig,
\* or -1 when there is none (end of signature, unbalanced brackets).
RECURSIVE CompleteLen(_, _)
RECURSIVE FieldsLen(_, _, _)
CompleteLen(sig, i) ==
  IF i > Len(sig) THEN -1
  ELSE IF sig[i] = "a"
         THEN LET n == CompleteLen(sig, i + 1) IN IF n < 0 THEN -1 ELSE n + 1
  ELSE IF sig[i] = "(" THEN FieldsLen(sig, i + 1, ")")
  ELSE IF sig[i] = "{" THEN FieldsLen(sig, i + 1, "}")
  ELSE IF sig[i] \in {")", "}"} THEN -1
  ELSE 1
\* Length of "<open> types <close>" whose first type starts at index i.
FieldsLen(sig, i, close) ==
  IF i > Len(sig) THEN -1
  ELSE IF sig[i] = close THEN 2
  ELSE LET n == CompleteLen(sig, i)
       IN IF n < 0 THEN -1
          ELSE LET m == FieldsLen(sig, i + n, close)
               IN IF m < 0 THEN -1 ELSE n + m

\* ------------------------------------------------------------------ values
\* The field name that marks the value slot of a variant (line 455), and the
\* name under which a variant's own signature is handed over.
VariantValueName == "zvariant::Variant::Value"
VariantSignatureName == "zvariant::Variant::Signature"

\* Host values, by serde shape.  A fixed-width number is held as the small
\* integer it is; an f64 as the 8 digits of its bit pattern (least significant
\* first); an f32 as its sign, biased exponent and 23-bit mantissa.
Prim(T, v) == [k |-> T, v |-> v]
Str(c, s) == [k |-> "str", c |-> c, s |-> s]
CharV(c) == [k |-> "char", s |-> <<c>>]
NoneV == [k |-> "none"]
UnitV == [k |-> "unit"]
SomeV(x) == [k |-> "some", val |-> x]
UnitStruct(name) == [k |-> "unit_struct", s |-> name]
UnitVariant(idx) == [k |-> "unit_variant", v |-> idx]
Newtype(via, x) == [k |-> "newtype", via |-> via, val |-> x]
SeqV(esig, elems) == [k |-> "seq", esig |-> esig, elems |-> elems]
BytesV(bs) == [k |-> "bytes", elems |-> bs]
MapV(ksig, vsig, entries) ==
  [k |-> "map", ksig |-> ksig, vsig |-> vsig, entries |-> entries]
Field(name, x) == [name |-> name, val |-> x]
StructV(via, fields) == [k |-> "struct", via |-> via, fields |-> fields]
\* A variant: a two-field struct, its signature then its tagged value.
VariantV(sig, x) == [k |-> "variant", sig |-> sig, val |-> x]

RECURSIVE SigOf(_)
RECURSIVE SigOfAll(_)
\* VariantValue::signature(): the D-Bus signature of a host value's type.
SigOf(x) ==
  CASE x.k \in {"i8", "i16"} -> <<"n">>
    [] x.k \in {"f32", "f64"} -> <<"d">>
    [] x.k \in {"bool", "i32", "i64", "u8", "u16", "u32", "u64"} ->
         <<SignatureChar(x.k)>>
    [] x.k = "str" -> <<x.c>>
    [] x.k \in {"char", "unit_struct"} -> <<"s">>
    [] x.k = "unit_variant" -> <<"u">>
    [] x.k \in {"none", "unit"} -> <<"y">>
    [] x.k \in {"some", "newtype"} -> SigOf(x.val)
    [] x.k = "seq" -> <<"a">> \o x.esig
    [] x.k = "bytes" -> <<"a", "y">>
    [] x.k = "map" -> <<"a", "{">> \o x.ksig \o x.vsig \o <<"}">>
    [] x.k = "struct" -> <<"(">> \o SigOfAll(x.fields) \o <<")">>
    [] x.k = "variant" -> <<"v">>
SigOfAll(fs) ==
  IF fs = <<>> THEN <<>> ELSE SigOf(Head(fs).val) \o SigOfAll(Tail(fs))

RECURSIVE Events(_)
RECURSIVE ElementEvents(_)
RECURSIVE EntryEvents(_)
RECURSIVE FieldEvents(_)
\* The callbacks Serialize::serialize makes for a value, in order.  A field
\* tagged VariantValueName is bracketed by "field" and "field_done": the two
\* halves of serialize_struct_element around the sub-encoder's run.
Events(x) ==
  CASE x.k \in {"bool", "i8", "i16", "i32", "i64", "u8", "u16", "u32", "u64",
                "f32", "f64"} -> <<[op |-> x.k, v |-> x.v]>>
    [] x.k = "str" -> <<[op |-> "str", s |-> x.s]>>
    [] x.k = "char" -> <<[op |-> "char", s |-> x.s]>>
    [] x.k = "none" -> <<[op |-> "none"]>>
    [] x.k = "unit" -> <<[op |-> "unit"]>>
    [] x.k = "some" -> <<[op |-> "some"]>>
    [] x.k = "unit_struct" -> <<[op |-> "unit_struct", s |-> x.s]>>
    [] x.k = "unit_variant" -> <<[op |-> "unit_variant", v |-> x.v]>>
    [] x.k = "newtype" -> <<[op |-> "newtype", via |-> x.via]>> \o Events(x.val)
    [] x.k = "seq" ->
         <<[op |-> "seq"]>> \o ElementEvents(x.elems) \o <<[op |-> "end_seq"]>>
    [] x.k = "bytes" -> <<[op |-> "bytes", elems |-> x.elems]>>
    [] x.k = "map" ->
         <<[op |-> "map"]>> \o EntryEvents(x.entries) \o <<[op |-> "end_map"]>>
    [] x.k = "struct" ->
         <<[op |-> "struct", via |-> x.via]>> \o FieldEvents(x.fields)
           \o <<[op |-> "end_struct"]>>
    [] x.k = "variant" ->
         Events(StructV("struct",
                        <<Field(VariantSignatureName, Str("g", x.sig)),
                          Field(VariantValueName, x.val)>>))
ElementEvents(es) ==
  IF es = <<>> THEN <<>>
  ELSE <<[op |-> "element"]>> \o Events(Head(es)) \o ElementEvents(Tail(es))
EntryEvents(es) ==
  IF es = <<>> THEN <<>>
  ELSE <<[op |-> "key"]>> \o Events(Head(es)[1]) \o <<[op |-> "value"]>>
         \o Events(Head(es)[2]) \o EntryEvents(Tail(es))
FieldEvents(fs) ==
  IF fs = <<>> THEN <<>>
  ELSE LET f == Head(fs)
       IN <<[op |-> "field", name |-> f.name]>> \o Events(f.val)
            \o (IF f.name = VariantValueName
                  THEN <<[op |-> "field_done"]>> ELSE <<>>)
            \o FieldEvents(Tail(fs))

RECURSIVE WellTyped(_)
\* A value whose parts agree with the signatures it carries: every element
\* of a sequence has the element type, every entry of a map the key and value
\* types, every variant's embedded signature is its value's, and the
\* value-slot tag occurs only inside variants.
WellTyped(x) ==
  CASE x.k \in {"some", "newtype"} -> WellTyped(x.val)
    [] x.k = "seq" ->
         \A i \in 1..Len(x.elems) :
           WellTyped(x.elems[i]) /\ SigOf(x.elems[i]) = x.esig
    [] x.k = "map" ->
         \A i \in 1..Len(x.entries) :
           /\ WellTyped(x.entries[i][1]) /\ SigOf(x.entries[i][1]) = x.ksig
           /\ WellTyped(x.entries[i][2]) /\ SigOf(x.entries[i][2]) = x.vsig
    [] x.k = "struct" ->
         /\ x.fields # <<>>
         /\ \A i \in 1..Len(x.fields) :
              WellTyped(x.fields[i].val) /\ x.fields[i].name # VariantValueName
    [] x.k = "variant" -> WellTyped(x.val) /\ SigOf(x.val) = x.sig
    [] OTHER -> TRUE

RECURSIVE Shapes(_)
RECURSIVE ShapesAll(_)
\* The shapes (kinds) that occur in a value.
Shapes(x) ==
  {x.k} \cup
  CASE x.k \in {"some", "newtype", "variant"} -> Shapes(x.val)
    [] x.k = "seq" -> ShapesAll(x.elems)
    [] x.k = "map" ->
         ShapesAll([i \in 1..(2 * Len(x.entries)) |->
                      x.entries[(i + 1) \div 2][2 - (i % 2)]])
    [] x.k = "struct" -> ShapesAll([i \in 1..Len(x.fields) |-> x.fields[i].val])
    [] OTHER -> {}
ShapesAll(xs) == IF xs = <<>> THEN {} ELSE Shapes(Head(xs)) \cup ShapesAll(Tail(xs))

\* ------------------------------------------------------- encoder machinery
\* A Serializer (lines 35-46): byte order B, format, the signature parser's
\* signature and position (characters consumed), the offset counter and the
\* pending variant signature.  `write` is the one sink, held in the machine.
NewSerializer(B, format, signature, bytes_written) ==
  [B |-> B, format |-> format, sig |-> signature, pos |-> 0,
   bytes_written |-> bytes_written, variant_sign |-> None]

\* The machine a handler runs on: the Serializer in use, the sink (its bytes,
\* its write position, the length it cannot grow beyond; -1: no limit), the
\* error that ended the handler ("" while it runs), and two records kept for
\* the properties: where each value was put and which arrays were closed.
Failed(m) == m.err # ""
Fail(m, e) == [m EXCEPT !.err = e]

\* The sink after n bytes of bs went to its write position, replacing what
\* is there and growing the sink at its end.
SinkTakes(m, bs, n) ==
  [m EXCEPT !.data = [i \in 1..Max(Len(m.data), m.spos + n) |->
                        IF i > m.spos /\ i <= m.spos + n THEN bs[i - m.spos]
                        ELSE IF i <= Len(m.data) THEN m.data[i] ELSE 0],
            !.spos = m.spos + n,
            !.taken = n,
            !.err = IF n < Len(bs) THEN "Io" ELSE ""]

\* W::write_all on the sink itself: the sink takes the bytes that fit and the
\* rest is an I/O error.
SinkWriteAll(m, bs) ==
  IF Failed(m) THEN m
  ELSE SinkTakes(m, bs, IF m.cap < 0 THEN Len(bs)
                        ELSE Min(Len(bs), Max(0, m.cap - m.spos)))

\* Serializer::write (lines 99-105): what the sink accepted is added.
Counted(m, m2) == [m2 EXCEPT !.enc.bytes_written = m.enc.bytes_written + m2.taken]

\* write_all on the Serializer: Serializer::write until all is written.
SerializerWrite(m, bs) ==
  IF Failed(m) THEN m ELSE Counted(m, SinkWriteAll(m, bs))

\* SignatureParser::next_char: the character at the cursor.
HasNext(enc) == enc.pos < Len(enc.sig)
NextChar(enc) == enc.sig[enc.pos + 1]
RequireNext(m) ==
  IF Failed(m) THEN m
  ELSE IF HasNext(m.enc) THEN m ELSE Fail(m, "SignatureExhausted")

\* SignatureParser::parse_char: require the expected character, if one is
\* given, and advance by one.
parse_char(m, expected) ==
  IF Failed(m) THEN m
  ELSE IF ~HasNext(m.enc) THEN Fail(m, "SignatureExhausted")
  ELSE IF IsSome(expected) /\ NextChar(m.enc) # Unwrap(expected)
         THEN Fail(m, "SignatureMismatch")
  ELSE [m EXCEPT !.enc.pos = m.enc.pos + 1]

\* SignatureParser::skip_chars and rewind_chars.
skip_chars(m, n) ==
  IF Failed(m) THEN m
  ELSE IF m.enc.pos + n > Len(m.enc.sig) THEN Fail(m, "SignatureExhausted")
  ELSE [m EXCEPT !.enc.pos = m.enc.pos + n]
rewind_chars(m, n) ==
  IF Failed(m) THEN m ELSE [m EXCEPT !.enc.pos = m.enc.pos - n]

\* Serializer::add_padding: zero bytes up to the alignment of bytes_written.
add_padding(m, alignment) ==
  IF Failed(m) THEN m
  ELSE SerializerWrite(m, Zeros(padding_for_n_bytes(m.enc.bytes_written, alignment)))

\* Note that a value of type c starts at the current offset.
Emit(m, c) ==
  IF Failed(m) THEN m
  ELSE [m EXCEPT !.emitted = m.emitted \cup {<<c, m.enc.bytes_written>>}]

\* Serializer::prep_serialize_basic::<T>.
prep_serialize_basic(m, T) ==
  add_padding(parse_char(m, Some(SignatureChar(T))),
              alignment_for_signature_char(SignatureChar(T), m.enc.format))

\* write_<T>::<B>: the value's bytes in byte order B.
WriteNumber(m, le) == SerializerWrite(m, InOrder(m.enc.B, le))

\* --------------------------------------------------------------- handlers
\* `v as f64` of an f32 [s, e, m] (zero or normal): the exponent is rebiased
\* and the mantissa moves up 29 bits.  The 8 digits, least significant first.
F32AsF64(v) ==
  <<0, 0, 0, (v.m % 8) * 32, (v.m \div 8) % 256, (v.m \div 2048) % 256,
    ((IF v.e = 0 THEN 0 ELSE v.e + 896) % 16) * 16 + (v.m \div 524288),
    v.s * 128 + ((IF v.e = 0 THEN 0 ELSE v.e + 896) \div 16)>>

\* serialize_bool, serialize_i16 .. serialize_f64: prep_serialize_basic, then
\* the value's bytes.
Basic(m, T, le) ==
  WriteNumber(Emit(prep_serialize_basic(m, T), SignatureChar(T)), le)

\* serialize_bool: the value as a u32.
serialize_bool(m, v) == Basic(m, "bool", Digits(IF v THEN 1 ELSE 0, 4))

\* serialize_i8: `v as i16` is written; nothing is parsed, nothing is padded.
serialize_i8(m, v) == WriteNumber(Emit(m, "n"), Digits(v, 2))

serialize_f64(m, le) == Basic(m, "f64", le)
serialize_f32(m, v) == serialize_f64(m, F32AsF64(v))
serialize_u32(m, v) == Basic(m, "u32", Digits(v, 4))

\* serialize_str lines 192-209, on the character c at the cursor: a u32
\* length for 's' and 'o'; a u8 length for 'g' and 'v', where 'v' also puts
\* the string aside as the pending variant signature.
PutAside(w, c, v) ==
  IF c = "v" /\ ~Failed(w) THEN [w EXCEPT !.enc.variant_sign = Some(v)] ELSE w
\* A u32 length, padded for, before every kind of string.
StrLengthWide(m, c, v) ==
  PutAside(SerializerWrite(Emit(add_padding(m, 4), c), InOrder(m.enc.B, Digits(Len(v), 4))),
           c, v)

\* serialize_str lines 192-209: the length, by the character at the cursor.
StrLength(m, c, v) ==
  IF c \in {"o", "s"}
    THEN SerializerWrite(Emit(add_padding(m, 4), c), InOrder(m.enc.B, Digits(Len(v), 4)))
  ELSE IF c \in {"g", "v"}
    THEN PutAside(IF Len(v) > 255 THEN Fail(m, "SignatureTooLong")
                  ELSE SerializerWrite(Emit(m, c), <<Len(v)>>), c, v)
  ELSE Fail(m, "IncorrectType")
\* The string's bytes without the NUL after them.
StrBodyNoNul(m, v) == SerializerWrite(parse_char(m, None), as_bytes(v))

\* serialize_str lines 210-212: the character is consumed, then the bytes and
\* a NUL are written.
StrBody(m, v) ==
  SerializerWrite(SerializerWrite(parse_char(m, None), as_bytes(v)), <<0>>)
StrAt(m, v) ==
  IF Failed(m) THEN m ELSE StrBody(StrLength(m, NextChar(m.enc), v), v)
serialize_str(m, v) == StrAt(RequireNext(m), v)

\* A SeqSerializer (lines 371-378) or StructSerializer (lines 440-443).
\* `first` and `at` are not fields of the code's; they are kept for the
\* properties: the offset counter as it was when the handle was made, and
\* the cursor position of the element type (element_signature_pos, line 295)
\* or of the character the struct framer was opened on.
SeqSerializer(start, element_signature_len, first_padding, first, at) ==
  [kind |-> "seq", start |-> start,
   element_signature_len |-> element_signature_len,
   first_padding |-> first_padding, end_parens |-> None, first |-> first,
   at |-> at]
StructSerializer(end_parens, at) ==
  [kind |-> "struct", start |-> 0, element_signature_len |-> 0,
   first_padding |-> 0, end_parens |-> end_parens, first |-> 0, at |-> at]
\* What a handler that opens a framer leaves: the machine, and the handle.
Opened(m, handle) == [m |-> m, handle |-> handle]
NoHandle == StructSerializer(None, 0)

\* serialize_seq lines 295-306: the element type's length, and the handle.
SeqHandle(m, start, first_padding, element_signature_len) ==
  IF ~Failed(m) /\ element_signature_len < 0
    THEN Opened(Fail(m, "UnbalancedBrackets"), NoHandle)
    ELSE Opened(m, SeqSerializer(start, element_signature_len, first_padding,
                                 m.enc.bytes_written, m.enc.pos))
\* serialize_seq lines 290-294: the first element's padding.
SeqFirstPadding(m, alignment) ==
  SeqHandle(add_padding(m, alignment), m.enc.bytes_written,
            padding_for_n_bytes(m.enc.bytes_written, alignment),
            CompleteLen(m.enc.sig, m.enc.pos + 1))
SeqElementType(m) ==
  IF Failed(m) THEN Opened(m, NoHandle)
  ELSE SeqFirstPadding(m, alignment_for_signature_char(NextChar(m.enc), m.enc.format))
\* serialize_seq: 'a' is consumed, the output padded to 4 and a zero length
\* written; then the element type is looked at.
serialize_seq(m) ==
  SeqElementType(
    RequireNext(SerializerWrite(Emit(add_padding(parse_char(m, Some("a")), 4), "a"),
                                InOrder(m.enc.B, Digits(0, 4)))))

\* The record of a closed array: the offset of its length field, the offset
\* counter after the first element's padding and at the close, and the patch
\* made and where in the sink.
Closed(m, f, back, patch) ==
  IF Failed(m) THEN m
  ELSE [m EXCEPT !.arrays = m.arrays \cup
          {[length_at |-> f.start - 4, first |-> f.first,
            close |-> m.enc.bytes_written, patch_at |-> back, patch |-> patch]}]
\* The seek forward left out.
SeekForwardLeftOut(m, array_len) == m

\* end_seq lines 404-407: seek forward by the array's length.
SeekForward(m, array_len) ==
  IF Failed(m) THEN m ELSE [m EXCEPT !.spos = m.spos + array_len]
\* The patch written through the Serializer's own, counting, writer.
PatchLengthCounted(m, f, array_len, back, patch) ==
  Closed(SeekForward(SerializerWrite([m EXCEPT !.spos = back], patch), array_len),
         f, back, patch)

\* end_seq lines 396-403: seek back from the sink's end and write the length
\* on the sink itself.
PatchLength(m, f, array_len, back, patch) ==
  IF back < 0 THEN Fail(m, "Io")
  ELSE Closed(SeekForward(SinkWriteAll([m EXCEPT !.spos = back], patch), array_len),
              f, back, patch)
\* The length set without taking the first element's padding off.
SetSizeWithPadding(m, f, array_len) ==
  IF Failed(m) THEN m
  ELSE PatchLength(m, f, array_len, Len(m.data) - array_len - 4,
                   InOrder(m.enc.B, Digits(array_len, 4)))

\* end_seq lines 394-395: the array's length, with and without the padding.
SetSize(m, f, array_len) ==
  IF Failed(m) THEN m
  ELSE PatchLength(m, f, array_len, Len(m.data) - array_len - 4,
                   InOrder(m.enc.B, Digits(array_len - f.first_padding, 4)))
\* SeqSerializer::end_seq: the element type of an empty sequence is skipped,
\* then the length is set.
SkipEmpty(m, f) ==
  IF f.start + f.first_padding = m.enc.bytes_written
    THEN skip_chars(m, f.element_signature_len) ELSE m
end_seq(m, f) == SetSize(SkipEmpty(m, f), f, m.enc.bytes_written - f.start)

\* SerializeSeq::serialize_element, up to the element's own serialize call:
\* every element but the first rewinds the cursor by the element type.
serialize_element(m, f) ==
  IF f.start + f.first_padding # m.enc.bytes_written
    THEN rewind_chars(m, f.element_signature_len) ELSE m

\* SerializeMap::serialize_key, up to the key's own serialize call.
serialize_key(m, f) ==
  Emit(add_padding(IF f.start + f.first_padding = m.enc.bytes_written
                     THEN parse_char(m, Some("{"))
                     ELSE rewind_chars(m, f.element_signature_len - 2),
                   8), "{")

\* serialize_bytes: a sequence whose elements are the bytes.
RECURSIVE BytesElements(_, _, _)
BytesElements(m, f, bs) ==
  IF bs = <<>> \/ Failed(m) THEN m
  ELSE BytesElements(Basic(serialize_element(m, f), "u8", Digits(Head(bs), 1)),
                     f, Tail(bs))
BytesEnd(m, f) == IF Failed(m) THEN m ELSE end_seq(m, f)
BytesIn(seq, v) ==
  IF Failed(seq.m) THEN seq.m
  ELSE BytesEnd(BytesElements(seq.m, seq.handle, v), seq.handle)
serialize_bytes(m, v) == BytesIn(serialize_seq(m), v)

\* serialize_struct lines 341-350: the character is consumed and padded for
\* before it is checked to be '(' or '{'.
StructOpen(m, c) ==
  IF Failed(m) THEN Opened(m, NoHandle)
  ELSE IF c = "(" THEN Opened(Emit(m, c), StructSerializer(Some(")"), m.enc.pos - 1))
  ELSE IF c = "{" THEN Opened(Emit(m, c), StructSerializer(Some("}"), m.enc.pos - 1))
  ELSE Opened(Fail(m, "IncorrectType"), NoHandle)
StructAt(m, c) ==
  IF c = "v" THEN Opened(m, StructSerializer(None, m.enc.pos))
  ELSE StructOpen(add_padding(parse_char(m, Some(c)), 8), c)
StructNext(m) ==
  IF Failed(m) THEN Opened(m, NoHandle) ELSE StructAt(m, NextChar(m.enc))
\* serialize_struct: 'v' opens a transparent framer.
serialize_struct(m) == StructNext(RequireNext(m))

\* The close consuming whatever character is at the cursor.
end_struct_unchecked(m, f) ==
  IF IsSome(f.end_parens) THEN parse_char(m, None) ELSE m

\* StructSerializer::end_struct.
end_struct(m, f) ==
  IF IsSome(f.end_parens) THEN parse_char(m, f.end_parens) ELSE m

\* ------------------------------------------------------------------ inputs
U8(n) == Prim("u8", n)
U32(n) == Prim("u32", n)
I32(n) == Prim("i32", n)
TupleYU == StructV("tuple", <<Field("", U8(1)), Field("", U32(2))>>)
ArrayOfI32(n) == SeqV(<<"i">>, [i \in 1..n |-> I32(i)])
MapSY(n) == MapV(<<"s">>, <<"y">>, [i \in 1..n |-> <<Str("s", <<"a">>), U8(i)>>])
VariantU32 == VariantV(<<"u">>, U32(65))

\* The values that hold no array or map.
Scalars ==
  << Prim("bool", TRUE), Prim("i8", -3), Prim("i16", -2), I32(7),
     Prim("i64", -5), U8(42), Prim("u16", 513), U32(16909060), Prim("u64", 9),
     Prim("f32", [s |-> 0, e |-> 127, m |-> 0]),
     Prim("f64", <<0, 0, 0, 0, 0, 0, 240, 63>>),
     Str("s", <<"h", "i">>), Str("o", <<"/">>), Str("g", <<"u">>), CharV("k"),
     NoneV, UnitV, SomeV(U8(1)), UnitStruct(<<"U">>), UnitVariant(1),
     Newtype("struct", U32(5)), Newtype("variant", Str("s", <<"a">>)),
     TupleYU,
     StructV("struct", <<Field("a", U8(1)), Field("b", Prim("i8", 5))>>),
     StructV("tuple_struct",
             <<Field("", StructV("tuple_variant", <<Field("", U8(1))>>)),
               Field("", Prim("i64", 2))>>),
     VariantU32,
     VariantV(<<"n">>, Prim("i8", 5)),
     VariantV(<<"n">>, Prim("i16", 5)),
     VariantV(<<"v">>, VariantU32),
     VariantV(<<"(", "y", "u", ")">>, TupleYU),
     VariantV(<<"s">>, U32(1)),
     StructV("struct_variant", <<Field("a", VariantU32), Field("b", U8(1))>>),
     StructV("struct", <<Field(VariantValueName, U32(1))>>),
     StructV("struct", <<Field(VariantSignatureName, Str("g", <<"u">>)),
                         Field(VariantValueName, U32(1)),
                         Field(VariantValueName, U32(2))>>) >>

\* The arrays and maps of n elements, and the values built around them.
Containers(n) ==
  << ArrayOfI32(n),
     SeqV(<<"x">>, [i \in 1..n |-> Prim("i64", i)]),
     SeqV(<<"n">>, [i \in 1..n |-> Prim("i8", i)]),
     SeqV(<<"s">>, [i \in 1..n |-> Str("s", <<"a">>)]),
     SeqV(<<"a", "y">>, [i \in 1..n |-> SeqV(<<"y">>, [j \in 1..(i - 1) |-> U8(j)])]),
     SeqV(<<"(", "y", "u", ")">>, [i \in 1..n |-> TupleYU]),
     SeqV(<<"v">>, [i \in 1..n |-> VariantU32]),
     BytesV([i \in 1..n |-> i]),
     MapSY(n),
     MapV(<<"y">>, <<"a", "i">>, [i \in 1..n |-> <<U8(i), ArrayOfI32(i - 1)>>]),
     MapV(<<"(", "y", ")">>, <<"y">>,
          [i \in 1..n |-> <<StructV("tuple", <<Field("", U8(i))>>), U8(i)>>]),
     MapV(<<"a", "y">>, <<"y">>, [i \in 1..n |-> <<BytesV(<<i>>), U8(i)>>]),
     MapV(<<"v">>, <<"y">>, [i \in 1..n |-> <<VariantU32, U8(i)>>]),
     StructV("tuple", <<Field("", MapSY(n)), Field("", U32(1))>>),
     StructV("tuple", <<Field("", U8(1)), Field("", ArrayOfI32(n)), Field("", U8(2))>>),
     VariantV(<<"a", "i">>, ArrayOfI32(n)),
     VariantV(<<"a", "{", "s", "y", "}">>, MapSY(n)),
     MapV(<<"y">>, <<"n">>, [i \in 1..n |-> <<U8(i), Prim("i8", i)>>]),
     MapV(<<"s">>, <<"v">>, [i \in 1..n |-> <<Str("s", <<"a">>), VariantU32>>]) >>

RECURSIVE ContainersUpTo(_)
ContainersUpTo(n) ==
  IF n < 0 THEN <<>> ELSE ContainersUpTo(n - 1) \o Containers(n)

\* A value with the signature its type declares.
Declared(xs) == [i \in 1..Len(xs) |-> [val |-> xs[i], sig |-> SigOf(xs[i])]]

\* Values whose type declares a signature that its serialize does not follow.
Undeclared ==
  << [val |-> U32(1), sig |-> <<"s">>],
     [val |-> U32(1), sig |-> <<>>],
     [val |-> Prim("i8", 1), sig |-> <<"u">>],
     [val |-> Prim("i16", 1), sig |-> <<"u">>],
     [val |-> Prim("bool", FALSE), sig |-> <<"y">>],
     [val |-> Prim("f32", [s |-> 1, e |-> 128, m |-> 4194304]), sig |-> <<"x">>],
     [val |-> Str("s", <<"u">>), sig |-> <<"u">>],
     [val |-> Str("s", <<"u">>), sig |-> <<"v">>],
     [val |-> ArrayOfI32(1), sig |-> <<"u">>],
     [val |-> ArrayOfI32(1), sig |-> <<"a", "(", "i">>],
     [val |-> MapSY(1), sig |-> <<"a", "y">>],
     [val |-> TupleYU, sig |-> <<"u">>],
     [val |-> TupleYU, sig |-> <<"(", "y", ")">>],
     [val |-> TupleYU, sig |-> <<"(", "y", "u", "u", ")">>],
     [val |-> TupleYU, sig |-> <<"{", "y", "u", "}">>],
     [val |-> StructV("tuple", <<Field("", U8(1)), Field("", Prim("i8", 2))>>),
      sig |-> <<"(", "y", ")">>],
     [val |-> StructV("struct",
                      <<Field("sig", Str("s", <<"u">>)), Field("val", U32(1))>>),
      sig |-> <<"v">>],
     [val |-> StructV("struct", <<Field(VariantSignatureName, Str("g", <<"u">>)),
                                  Field(VariantValueName, U32(1)),
                                  Field(VariantValueName, U32(2))>>),
      sig |-> <<"v">>],
     [val |-> StructV("tuple", <<Field("", U8(1)), Field("", TupleYU)>>),
      sig |-> <<"(", "y", "u", ")">>],
     [val |-> StructV("tuple", <<Field("", U8(1)), Field("", Str("s", <<"a">>))>>),
      sig |-> <<"(", "y", "a", "y", ")">>],
     [val |-> StructV("tuple", <<Field("", U8(1)), Field("", ArrayOfI32(1))>>),
      sig |-> <<"(", "y", "(", "i", ")", ")">>] >>

Cases == Declared(Scalars) \o Declared(ContainersUpTo(MaxElems)) \o Undeclared

\* The sinks to_write is handed: ones that already hold bytes, with the write
\* position at their end or one before it; ones that cannot grow beyond a
\* length; and ones that hold MaxBeyond bytes beyond the write position.
Sinks ==
  {[len |-> l, pos |-> Max(0, l - b), cap |-> -1] : l \in 0..MaxPre, b \in 0..1}
  \cup {[len |-> 0, pos |-> 0, cap |-> q] : q \in 0..MaxQuota}
  \cup {[len |-> p + MaxBeyond, pos |-> p, cap |-> -1] : p \in 0..1}
\* The sink to_bytes makes: an empty vector (line 30).
VecSink == [len |-> 0, pos |-> 0, cap |-> -1]
\* What a sink of n bytes holds before encoding.
OldBytes(n) == [i \in 1..n |-> 170]

\* ------------------------------------------------------------------- state
VARIABLES
  case,      \* index into Cases: the value encoded and its declared signature
  entry,     \* the entry point called: "to_write" or "to_bytes"
  sink0,     \* the sink as handed over: its length, write position and limit
  pc,        \* index of the next callback of Events(value)
  encs,      \* stack of Serializers: the top-level one, then sub-encoders
  frames,    \* stack of open SeqSerializer / StructSerializer handles
  data,      \* the sink's bytes
  spos,      \* the sink's write position
  status,    \* "running", "failed", "panicked" or "returned"
  error,     \* the error that ended the encode, "" if none
  ret,       \* what the entry point returned, once it has
  emitted,   \* <<type character, offset>> of every value put so far
  arrays     \* a record of every sequence closed so far

vars == <<case, entry, sink0, pc, encs, frames, data, spos, status, error, ret,
          emitted, arrays>>

value == Cases[case].val
signature == Cases[case].sig
Prog == Events(value)
Top == encs[Len(encs)]
Frame == frames[Len(frames)]

\* The machine a handler starts on.
Machine ==
  [enc |-> Top, data |-> data, spos |-> spos, cap |-> sink0.cap, err |-> "",
   taken |-> 0, emitted |-> emitted, arrays |-> arrays]

\* The state a handler leaves: an error ends the traversal where it is.
Leave(m, frames2) ==
  /\ encs' = [encs EXCEPT ![Len(encs)] = m.enc]
  /\ data' = m.data
  /\ spos' = m.spos
  /\ emitted' = m.emitted
  /\ arrays' = m.arrays
  /\ error' = m.err
  /\ status' = IF Failed(m) THEN "failed" ELSE "running"
  /\ pc' = IF Failed(m) THEN pc ELSE pc + 1
  /\ frames' = IF Failed(m) THEN frames ELSE frames2
  /\ UNCHANGED <<case, entry, sink0, ret>>

\* The next callback is `op`.
At(op) == status = "running" /\ pc <= Len(Prog) /\ Prog[pc].op = op

\* to_write lines 19-20 (and to_bytes line 30): a new Serializer on the sink.
Init ==
  /\ case \in 1..Len(Cases)
  /\ entry \in {"to_write", "to_bytes"}
  /\ sink0 \in IF entry = "to_bytes" THEN {VecSink} ELSE Sinks
  /\ pc = 1
  /\ \E B \in {"LE", "BE"} : encs = <<NewSerializer(B, "DBus", signature, 0)>>
  /\ frames = <<>>
  /\ data = OldBytes(sink0.len)
  /\ spos = sink0.pos
  /\ status = "running"
  /\ error = ""
  /\ ret = None
  /\ emitted = {}
  /\ arrays = {}

\* ----------------------------------------------------------------- actions
SerializeBool == At("bool") /\ Leave(serialize_bool(Machine, Prog[pc].v), frames)
SerializeI8 == At("i8") /\ Leave(serialize_i8(Machine, Prog[pc].v), frames)
SerializeI16 == At("i16") /\ Leave(Basic(Machine, "i16", Digits(Prog[pc].v, 2)), frames)
SerializeI32 == At("i32") /\ Leave(Basic(Machine, "i32", Digits(Prog[pc].v, 4)), frames)
SerializeI64 == At("i64") /\ Leave(Basic(Machine, "i64", Digits(Prog[pc].v, 8)), frames)
SerializeU8 == At("u8") /\ Leave(Basic(Machine, "u8", Digits(Prog[pc].v, 1)), frames)
SerializeU16 == At("u16") /\ Leave(Basic(Machine, "u16", Digits(Prog[pc].v, 2)), frames)
SerializeU32 == At("u32") /\ Leave(serialize_u32(Machine, Prog[pc].v), frames)
SerializeU64 == At("u64") /\ Leave(Basic(Machine, "u64", Digits(Prog[pc].v, 8)), frames)
SerializeF32 == At("f32") /\ Leave(serialize_f32(Machine, Prog[pc].v), frames)
SerializeF64 == At("f64") /\ Leave(serialize_f64(Machine, Prog[pc].v), frames)

\* serialize_char: the character as a one-character string.
SerializeChar == At("char") /\ Leave(serialize_str(Machine, Prog[pc].s), frames)
SerializeStr == At("str") /\ Leave(serialize_str(Machine, Prog[pc].s), frames)
SerializeBytes == At("bytes") /\ Leave(serialize_bytes(Machine, Prog[pc].elems), frames)

\* todo!(): the thread panics; nothing is returned.
Panic ==
  /\ status' = "panicked"
  /\ UNCHANGED <<case, entry, sink0, pc, encs, frames, data, spos, error, ret,
                 emitted, arrays>>
SerializeNone == At("none") /\ Panic
SerializeSome == At("some") /\ Panic
\* serialize_unit: serialize_none.
SerializeUnit == At("unit") /\ Panic

\* serialize_unit_struct: the name as a string.
SerializeUnitStruct == At("unit_struct") /\ Leave(serialize_str(Machine, Prog[pc].s), frames)
\* serialize_unit_variant: the index as a u32.
SerializeUnitVariant == At("unit_variant") /\ Leave(serialize_u32(Machine, Prog[pc].v), frames)
\* serialize_newtype_struct / serialize_newtype_variant: the inner value's
\* own callbacks follow on the same Serializer.
SerializeNewtype == At("newtype") /\ Leave(Machine, frames)

\* The state a handler that opens a framer leaves.
LeaveOpened(r) == Leave(r.m, Append(frames, r.handle))
SerializeSeq == At("seq") /\ LeaveOpened(serialize_seq(Machine))
\* serialize_map: serialize_seq.
SerializeMap == At("map") /\ LeaveOpened(serialize_seq(Machine))
\* serialize_struct and the four callbacks that call it.
SerializeStruct == At("struct") /\ LeaveOpened(serialize_struct(Machine))

SerializeElement == At("element") /\ Leave(serialize_element(Machine, Frame), frames)
SerializeKey == At("key") /\ Leave(serialize_key(Machine, Frame), frames)
SerializeValue == At("value") /\ Leave(Machine, frames)

\* The sub-encoder counting from zero.
SubSerializerFromZero(parent, sub_signature) ==
  NewSerializer(parent.B, parent.format, sub_signature, 0)

\* serialize_struct_element lines 465-473: the Serializer made for a variant's
\* value, on the taken signature and at the parent's offset.
SubSerializer(parent, sub_signature) ==
  NewSerializer(parent.B, parent.format, sub_signature, parent.bytes_written)
\* The pending signature read and left in place.
PeekVariantSign(enc) == enc

\* Option::take on variant_sign (line 461): what is left in the Serializer.
TakeVariantSign(enc) == [enc EXCEPT !.variant_sign = None]

\* serialize_struct_element, up to the field's own serialize call.  A field
\* tagged as a variant's value takes the pending signature and continues on a
\* new Serializer that starts at the parent's offset.
SerializeField ==
  /\ At("field")
  /\ IF Prog[pc].name # VariantValueName THEN Leave(Machine, frames)
     ELSE IF ~IsSome(Top.variant_sign) THEN Leave(Fail(Machine, "IncorrectValue"), frames)
     ELSE /\ encs' = Append([encs EXCEPT ![Len(encs)] = TakeVariantSign(Top)],
                            SubSerializer(Top, Unwrap(Top.variant_sign)))
          /\ pc' = pc + 1
          /\ UNCHANGED <<case, entry, sink0, frames, data, spos, status, error,
                         ret, emitted, arrays>>

\* serialize_struct_element lines 475-477: the sub-encoder's offset counter
\* goes back to the parent.
FieldDone ==
  /\ At("field_done")
  /\ encs' = [SubSeq(encs, 1, Len(encs) - 1) EXCEPT
                ![Len(encs) - 1].bytes_written = Top.bytes_written]
  /\ pc' = pc + 1
  /\ UNCHANGED <<case, entry, sink0, frames, data, spos, status, error, ret,
                 emitted, arrays>>

Pop(s) == SubSeq(s, 1, Len(s) - 1)
EndSeq == At("end_seq") /\ Leave(end_seq(Machine, Frame), Pop(frames))
EndMap == At("end_map") /\ Leave(end_seq(Machine, Frame), Pop(frames))
EndStruct == At("end_struct") /\ Leave(end_struct(Machine, Frame), Pop(frames))

\* What an entry point returns.
Ok(count, bytes) == Some([ok |-> TRUE, count |-> count, bytes |-> bytes, error |-> ""])
Err(e) == Some([ok |-> FALSE, count |-> 0, bytes |-> <<>>, error |-> e])
Finished == status = "failed" \/ (status = "running" /\ pc > Len(Prog))

\* to_write lines 21-22: the error, or the top-level Serializer's count.
to_write_result == IF status = "failed" THEN Err(error) ELSE Ok(encs[1].bytes_written, <<>>)

\* to_bytes lines 31-32: to_write's result is dropped, the buffer returned.
to_bytes_result == Ok(0, data)

ToWrite ==
  /\ entry = "to_write" /\ Finished
  /\ ret' = to_write_result
  /\ status' = "returned"
  /\ UNCHANGED <<case, entry, sink0, pc, encs, frames, data, spos, error,
                 emitted, arrays>>
ToBytes ==
  /\ entry = "to_bytes" /\ Finished
  /\ ret' = to_bytes_result
  /\ status' = "returned"
  /\ UNCHANGED <<case, entry, sink0, pc, encs, frames, data, spos, error,
                 emitted, arrays>>

Next ==
  \/ SerializeBool \/ SerializeI8 \/ SerializeI16 \/ SerializeI32
  \/ SerializeI64 \/ SerializeU8 \/ SerializeU16 \/ SerializeU32
  \/ SerializeU64 \/ SerializeF32 \/ SerializeF64 \/ SerializeChar
  \/ SerializeStr \/ SerializeBytes \/ SerializeNone \/ SerializeSome
  \/ SerializeUnit \/ SerializeUnitStruct \/ SerializeUnitVariant
  \/ SerializeNewtype \/ SerializeSeq \/ SerializeMap \/ SerializeStruct
  \/ SerializeElement \/ SerializeKey \/ SerializeValue \/ SerializeField
  \/ FieldDone \/ EndSeq \/ EndMap \/ EndStruct \/ ToWrite \/ ToBytes

Spec == Init /\ [][Next]_vars

\* -------------------------------------------------------------- properties
\* The declared signature is the value's, and the value agrees with itself.
Matching == signature = SigOf(value) /\ WellTyped(value)
\* The traversal ran to its end without an error.
Encoded == error = "" /\ pc > Len(Prog) /\ status \in {"running", "returned"}
\* The sink was handed over with its write position at its end.
AtEnd == sink0.pos = sink0.len
Returned == Unwrap(ret)

\* C1: whenever a step of the encode fails, the entry point (to_write or
\* to_bytes) returns the error; it never returns success after a failure.
C1_FailureIsReturned ==
  (status = "returned" /\ error # "") => ~Returned.ok

\* C2: in every successful encode of a matching value, every value put starts
\* at an offset that is a multiple of its type's alignment.
C2_EveryValueAligned ==
  (Encoded /\ Matching) =>
    \A e \in emitted : e[2] % alignment_for_signature_char(e[1], "DBus") = 0

\* C3: the length written for every closed array or map is the offset counter
\* at the close less the counter just after the first element's padding; and
\* in a sink that was handed over at its end, the four bytes at the array's
\* placeholder hold that length.
C3_LengthCountsElements ==
  \A a \in arrays :
    /\ FromDigits(InOrder(Top.B, a.patch)) = a.close - a.first
    /\ AtEnd => SubSeq(data, sink0.len + a.length_at + 1,
                       sink0.len + a.length_at + 4) = a.patch

\* C3, witness: an encode has ended in which an array with padding before its
\* first element, an empty array and a non-empty array were closed.
C3_Witness ==
  /\ Encoded /\ status = "returned" /\ AtEnd /\ sink0.len > 0
  /\ \E a, b, c \in arrays :
       /\ a.first > a.length_at + 4 /\ a.close > a.first
       /\ b.close = b.first
       /\ c.close > c.first /\ c.length_at > a.first

\* C4: after a successful encode of a matching value (here: one that holds
\* no i8, whose writer consumes no signature character at all), the
\* top-level cursor is exactly past the last character of the signature.
C4_CursorPastSignature ==
  (Encoded /\ Matching /\ "i8" \notin Shapes(value)) =>
    encs[1].pos = Len(signature)

\* The primitive callbacks, the signature character each is designated and
\* the width of what each writes.
Primitives ==
  {"bool", "i8", "i16", "i32", "i64", "u8", "u16", "u32", "u64", "f32", "f64"}
Designated(op) ==
  CASE op = "i8" -> "n" [] op = "f32" -> "d" [] OTHER -> SignatureChar(op)
Written(op) == CASE op = "i8" -> 2 [] op = "f32" -> 8 [] OTHER -> Width(op)

\* C5: every primitive write succeeds only on its designated signature
\* character, which it consumes; it then pads to the primitive's alignment
\* and writes the value; on any other character it fails.
C5_PrimitiveWrites ==
  [][\A op \in Primitives :
       At(op) =>
         LET c == Designated(op)
             a == alignment_for_signature_char(c, "DBus")
             fits == HasNext(Top) /\ NextChar(Top) = c
         IN /\ ~fits => status' = "failed"
            /\ status' = "running" =>
                 /\ Top'.pos = Top.pos + 1
                 /\ Top'.bytes_written =
                      Top.bytes_written
                        + padding_for_n_bytes(Top.bytes_written, a) + Written(op)]_vars

\* The callbacks that open a composite value.
Composite == {"struct", "seq", "map", "bytes"}
\* The value holds a map entry whose key is a composite value.
HasCompositeKey ==
  \E i \in 1..(Len(Prog) - 1) : Prog[i].op = "key" /\ Prog[i + 1].op \in Composite

\* C6: no encode of a map with a composite key succeeds.
C6_CompositeKeyFails == HasCompositeKey => ~Encoded

\* C7: the unit and None shapes make the encode fail with an error that is
\* returned; the program is not aborted.
C7_UnitAndNoneFail ==
  [][(At("none") \/ At("unit")) =>
       (status' = "failed" /\ error' = "UnsupportedShape")]_vars

\* C8: between callbacks of an encode that has not failed, a Serializer's
\* pending variant signature is set only if the callback just made wrote a
\* string and the next one is the tagged value slot of a variant.
C8_PendingOnlyBeforeValue ==
  (error = "" /\ status \in {"running", "returned"}) =>
    \A i \in 1..Len(encs) :
      IsSome(encs[i].variant_sign) =>
        /\ i = Len(encs) /\ pc > 1 /\ pc <= Len(Prog)
        /\ Prog[pc - 1].op = "str"
        /\ Prog[pc].op = "field" /\ Prog[pc].name = VariantValueName

\* The next callback closes a sequence or a map.
Closing == At("end_seq") \/ At("end_map")

\* C9: the offset counter of the Serializer in use is the number of bytes the
\* sink has taken (seen as the sink's growth, for a sink handed over at its
\* end); it never decreases, and closing a sequence leaves it unchanged.
C9_CounterCountsAppended ==
  /\ [](AtEnd => Top.bytes_written = Len(data) - sink0.len)
  /\ [][/\ Top'.bytes_written >= Top.bytes_written
        /\ Closing => Top'.bytes_written = Top.bytes_written]_vars

\* C9, witness: a sequence was closed, more was written after it, and the
\* encode ended.
C9_Witness ==
  /\ Encoded /\ status = "returned" /\ AtEnd
  /\ \E a \in arrays : a.close > a.first /\ encs[1].bytes_written > a.close

\* C10: with a sink that starts empty, the write position is at the end of
\* the sink after every callback (so after every sequence close), what is
\* there is never written over except a length placeholder by its close, and
\* the count to_write returns is the sink's final length.
C10_CountIsLength ==
  /\ [](sink0.len = 0 =>
          /\ spos = Len(data)
          /\ (entry = "to_write" /\ status = "returned" /\ Returned.ok)
               => Returned.count = Len(data))
  /\ [][sink0.len = 0 =>
          /\ Len(data') >= Len(data)
          /\ \A i \in 1..Len(data) :
               data'[i] # data[i] =>
                 /\ Closing \/ At("bytes")
                 /\ \E a \in arrays' \ arrays :
                      i > a.length_at /\ i <= a.length_at + 4]_vars

\* C10, witness: to_write returned the count of an encode, into a sink that
\* started empty, in which nested sequences were closed.
C10_Witness ==
  /\ sink0.len = 0 /\ entry = "to_write" /\ status = "returned"
  /\ Returned.ok /\ Returned.count > 0
  /\ \E a, b \in arrays :
       a.length_at < b.length_at /\ b.close <= a.close /\ b.close > b.first

\* to_bytes has returned the little-endian DBus encoding of the case's value.
LittleEndian == encs[1].B = "LE"
ToBytesReturned == entry = "to_bytes" /\ status = "returned" /\ LittleEndian
\* The case is scenario S8: the one-entry map {"a": 1} against a{sy}.
IsS8 ==
  /\ signature = <<"a", "{", "s", "y", "}">>
  /\ value.k = "map" /\ Len(value.entries) = 1
  /\ value.entries[1][1].k = "str" /\ value.entries[1][1].s = <<"a">>
  /\ value.entries[1][2].k = "u8" /\ value.entries[1][2].v = 1
\* The case is scenario S9: a variant that carries the u32 0x41.
IsS9 ==
  /\ signature = <<"v">>
  /\ value.k = "variant" /\ value.sig = <<"u">>
  /\ value.val.k = "u32" /\ value.val.v = 65

\* C11 as stated: scenario S8 gives the 16 bytes 08 00 00 00 00 00 00 00
\* 01 00 00 00 61 00 01 00, a length of 8 and a pad byte after the value.
C11_S8AsStated ==
  (ToBytesReturned /\ IsS8) =>
    Returned.bytes = <<8, 0, 0, 0, 0, 0, 0, 0, 1, 0, 0, 0, 97, 0, 1, 0>>

\* C11, amended: scenario S8 gives the 15 bytes 07 00 00 00 00 00 00 00
\* 01 00 00 00 61 00 01: a length of 7 (the key's six bytes and the value
\* byte), four bytes of padding to 8, the key at offsets 8..13, the value at
\* offset 14, and nothing after it.
C11_S8Bytes ==
  (ToBytesReturned /\ IsS8) =>
    /\ Returned.ok
    /\ Returned.bytes = <<7, 0, 0, 0, 0, 0, 0, 0, 1, 0, 0, 0, 97, 0, 1>>

\* C11, witness: to_bytes has returned the encoding of scenario S8.
C11_Witness == ToBytesReturned /\ IsS8 /\ error = "" /\ Len(Returned.bytes) > 0

\* C12 as stated: scenario S9 gives the 11 bytes 01 75 00 00 00 00 00
\* 41 00 00 00.
C12_S9AsStated ==
  (ToBytesReturned /\ IsS9) =>
    Returned.bytes = <<1, 117, 0, 0, 0, 0, 0, 65, 0, 0, 0>>

\* C12, amended: scenario S9 gives the 8 bytes 01 75 00 00 41 00 00 00: the
\* signature (length 1, 'u', NUL) at offsets 0..2, one byte of padding to
\* alignment 4, and the u32 at offset 4.
C12_S9Bytes ==
  (ToBytesReturned /\ IsS9) =>
    /\ Returned.ok
    /\ Returned.bytes = <<1, 117, 0, 0, 65, 0, 0, 0>>

\* C12, witness: to_bytes has returned the encoding of scenario S9.
C12_Witness == ToBytesReturned /\ IsS9 /\ error = "" /\ Len(Returned.bytes) > 0

\* The character a framer was opened on, and the cursor position just past
\* the complete type that starts there.
OpenedOn(f) == Top.sig[f.at + 1]
PastType(f) == f.at + CompleteLen(Top.sig, f.at + 1)

\* C13: in a sequence opened on aT (T not a dict entry), every element is
\* encoded with the cursor at the first character of T, and a successful
\* close leaves the cursor just past T.
C13_ElementsAtElementType ==
  [][/\ (At("element") /\ OpenedOn(Frame) # "{" /\ status' = "running")
          => Top'.pos = Frame.at
     /\ (At("end_seq") /\ OpenedOn(Frame) # "{" /\ status' = "running")
          => Top'.pos = PastType(Frame)]_vars

\* The next callback is the first key of its map.
FirstKey == At("key") /\ Prog[pc - 1].op = "map"

\* C14: in a map opened on a{KV}, '{' is consumed once, by the first key;
\* every key is encoded with the cursor at K, at an offset that is a
\* multiple of 8, and every value with the cursor at V.
C14_EntriesAtKeyAndValue ==
  [][/\ (At("key") /\ status' = "running") =>
          /\ Top'.pos = Frame.at + 1
          /\ FirstKey => (Top.pos = Frame.at /\ NextChar(Top) = "{")
          /\ Top'.bytes_written % 8 = 0
     /\ At("value") =>
          Top.pos = Frame.at + 1 + CompleteLen(Top.sig, Frame.at + 2)]_vars

\* The bracket that closes the one a framer was opened on.
Matches(open) == IF open = "(" THEN ")" ELSE "}"

AtValueSlot == At("field") /\ Prog[pc].name = VariantValueName
Parent == encs[Len(encs) - 1]

\* C16: the value slot of a variant starts a sub-encoder on the pending
\* signature, with cursor 0 and the parent's offset counter, and leaves the
\* parent's cursor alone; no Serializer below the one in use ever moves its
\* cursor; when the slot is done the parent's counter is the sub-encoder's;
\* and at the close of a variant framer that held a signature and a value
\* slot the cursor is one past the 'v' the framer was opened on.
C16_SubEncoderFrame ==
  /\ [][/\ (AtValueSlot /\ IsSome(Top.variant_sign)) =>
             /\ Len(encs') = Len(encs) + 1
             /\ encs'[Len(encs)].pos = Top.pos
             /\ encs'[Len(encs)].bytes_written = Top.bytes_written
             /\ Top'.sig = Unwrap(Top.variant_sign) /\ Top'.pos = 0
             /\ Top'.bytes_written = Top.bytes_written
             /\ data' = data
        /\ \A i \in 1..(Len(encs) - 1) :
             encs'[i].pos = encs[i].pos /\ encs'[i].sig = encs[i].sig
        /\ At("field_done") =>
             /\ Len(encs') = Len(encs) - 1
             /\ Top'.bytes_written = Top.bytes_written
             /\ Top'.pos = Parent.pos]_vars
  /\ []((At("end_struct") /\ Prog[pc - 1].op = "field_done"
           /\ ~IsSome(Frame.end_parens))
          => (Top.pos = Frame.at + 1 /\ OpenedOn(Frame) = "v"))

\* C16, witness: the value slot of a variant held in a variant is done: the
\* sub-encoder of the outer variant is in use, past the inner one.
C16_Witness ==
  /\ status = "running" /\ pc > 1 /\ Prog[pc - 1].op = "field_done"
  /\ Len(encs) = 2 /\ Top.bytes_written > encs[1].bytes_written

\* C17: a tagged value slot reached with no pending variant signature fails
\* and changes neither the sink nor any Serializer; one reached with a
\* pending signature takes it, and a slot that follows another slot fails.
C17_SlotNeedsSignature ==
  [][AtValueSlot =>
       /\ IF IsSome(Top.variant_sign)
            THEN status' = "running" /\ ~IsSome(encs'[Len(encs)].variant_sign)
            ELSE /\ status' = "failed" /\ error' = "IncorrectValue"
                 /\ data' = data /\ spos' = spos /\ encs' = encs
       /\ Prog[pc - 1].op = "field_done" => status' = "failed"]_vars

\* C17, witness: a second value slot, right after a first, has failed.
C17_Witness ==
  /\ status = "failed" /\ error = "IncorrectValue" /\ pc > 1
  /\ Prog[pc].op = "field" /\ Prog[pc - 1].op = "field_done"

\* C18: a successful close of a sequence or map writes the length onto the
\* four bytes of the sequence's placeholder and changes no other byte of the
\* sink, and leaves the write position where it was.
C18_PatchOnPlaceholder ==
  [][(Closing /\ status' = "running") =>
       \A a \in arrays' \ arrays :
         /\ a.patch_at = sink0.pos + a.length_at
         /\ SubSeq(data', sink0.pos + a.length_at + 1,
                   sink0.pos + a.length_at + 4) = a.patch
         /\ Len(data') = Len(data)
         /\ \A i \in 1..Len(data) :
              data'[i] # data[i] =>
                (i > sink0.pos + a.length_at /\ i <= sink0.pos + a.length_at + 4)
         /\ spos' = spos]_vars

\* The callbacks that write a string, and the characters a string fits.
Strings == {"str", "char", "unit_struct"}
\* The character at the cursor (if any) does not fit the next callback.
Unfit ==
  \/ \E op \in Primitives \ {"i8"} :
       At(op) /\ ~(HasNext(Top) /\ NextChar(Top) = Designated(op))
  \/ At("unit_variant") /\ ~(HasNext(Top) /\ NextChar(Top) = "u")
  \/ \E op \in Strings :
       At(op) /\ ~(HasNext(Top) /\ NextChar(Top) \in {"s", "o", "g", "v"})
  \/ \E op \in {"seq", "map", "bytes"} :
       At(op) /\ ~(HasNext(Top) /\ NextChar(Top) = "a")
  \/ At("struct") /\ ~(HasNext(Top) /\ NextChar(Top) \in {"(", "{", "v"})

\* C19: a callback that fails because the character at the cursor does not
\* fit its shape leaves the sink and the offset counter as they were.
C19_MismatchWritesNothing ==
  [][(Unfit /\ status' = "failed" /\ error' # "Io") =>
       (data' = data /\ spos' = spos /\ Top'.bytes_written = Top.bytes_written)]_vars

====
